---- MODULE Spec2Model ----
(***************************************************************************)
(* gatsby-typegen-remark, src/gatsby-node.js: the per-record Markdown      *)
(* parse cache (astPromiseCache), the plugin pipeline run inside getAST,   *)
(* the HTML cache (htmlPromisesCache) and the lazily computed fields.      *)
(*                                                                         *)
(* Several specifications share the actions: Spec (two records read        *)
(* through excerpt: the parse cache and the pipeline run), SpecLive (Spec   *)
(* for one record, with the scheduling of the event loop), SpecOrder (two   *)
(* plugins with both hooks), SpecHtml (html and timeToRead), SpecHeadings   *)
(* and SpecRecreate (headings), SpecReading (timeToRead over documents of   *)
(* any length) and SpecExcerpt (excerpt over many texts).                   *)
(*                                                                         *)
(* JavaScript is single threaded: the synchronous part of a resolver call  *)
(* (the Promise executors of getAST / getHTML) is modelled by `stack`, and *)
(* no other task runs while the stack is non-empty.  Everything that the   *)
(* code schedules through a promise (plugin settlement, the two .then      *)
(* callbacks of the run, the resolvers' .then callbacks) is one action     *)
(* each and interleaves freely.                                            *)
(***************************************************************************)
EXTENDS Integers, Sequences, FiniteSets, TLC

VARIABLES
  astPromiseCache,    \* id -> handle of the cached getAST promise, 0 = no entry
  htmlPromisesCache,  \* id -> handle of the cached getHTML promise, 0 = no entry
  runs,               \* the promises created by getAST, one pipeline run each
  htmls,              \* the promises created by getHTML
  node,               \* id -> the content record: src, ast, html, headings
  calls,              \* the resolver calls made by the host, in call order
  stack,              \* the synchronous call stack (Promise executors running)
  inval,              \* id -> number of onNodeCreate calls so far (history)
  plugins,            \* pluginOptions.plugins: what each configured module exposes
  events              \* number of invalidations, source edits and failures so far

vars == <<astPromiseCache, htmlPromisesCache, runs, htmls, node, calls, stack,
          inval, plugins, events>>

-----------------------------------------------------------------------------
(* Bounds of the model *)

\* resolver calls made by the host
MaxCalls == 2

\* disturbances in one behaviour: onNodeCreate calls, source edits, failures
MaxEvents == 2

-----------------------------------------------------------------------------
(* Records, documents, plugins *)

MdIds == {1, 2}

\* The nodes the host reports to onNodeCreate: the Markdown records and a File
FileNode == [id |-> 3, type |-> "File"]

MdNode(id) == [id |-> id, type |-> "MarkdownRemark"]

HostNodes == {MdNode(id) : id \in MdIds} \cup {FileNode}

\* A Markdown source is a sequence of lines; depth 0 is a paragraph,
\* depth 1..6 a heading; texts are the text runs of the line, each a sequence
\* of characters.
Line(d, ts) == [depth |-> d, texts |-> ts]

TitleText == <<"T", "i", "t", "l", "e">>

BodyText == <<"b", "o", "d", "y">>

NewText == <<"N", "e", "w">>

DocA == <<Line(1, <<TitleText>>), Line(0, <<BodyText>>)>>

DocB == <<Line(2, <<NewText>>)>>

\* the document the user saves over src: the other one
Edited(src) == IF src[1] = DocA[1] THEN DocB ELSE DocA

\* A configured plugin list, in configured order: a module that exposes only
\* mutateSource, then a module that is itself a function
MutateOnly == [mutateSource |-> TRUE, callable |-> FALSE]

AnnotateOnly == [mutateSource |-> FALSE, callable |-> TRUE]

Configured == <<MutateOnly, AnnotateOnly>>

\* Another configured list: two modules that are functions and expose
\* mutateSource as well
BothHooks == [mutateSource |-> TRUE, callable |-> TRUE]

TwoPlugins == <<BothHooks, BothHooks>>

NPlugins == Len(plugins)

PluginIds == 1..NPlugins

\* The line plugin k's mutateSource writes into markdownNode.src
Marker(k) == Line(0, << IF k = 1 THEN <<"m", "1">> ELSE <<"m", "2">> >>)

Contains(s, x) == \E i \in DOMAIN s : s[i] = x

\* requiredPlugin.mutateSource({markdownNode, ...}) changing the source in place
MutateSource(k, src) == IF Contains(src, Marker(k)) THEN src ELSE Append(src, Marker(k))

-----------------------------------------------------------------------------
(* remark.parse, select, toHAST/hastToHTML *)

Undefined == <<"undefined">>

NoAST == [type |-> "none", children |-> <<>>, data |-> {}]

TextNode(t) == [type |-> "text", value |-> t]

ParseLine(l) ==
  [type |-> IF l.depth > 0 THEN "heading" ELSE "paragraph",
   depth |-> l.depth,
   children |-> [i \in DOMAIN l.texts |-> TextNode(l.texts[i])]]

\* remark.parse(markdownNode.src)
Parse(src) ==
  [type |-> "root",
   children |-> [i \in DOMAIN src |-> ParseLine(src[i])],
   data |-> {}]

\* An annotation plugin working on markdownAST in place
Annotate(k, ast) == [ast EXCEPT !.data = @ \cup {k}]

IsHeading(n) == n.type = "heading"

\* select(ast, `heading`)
SelectHeadings(ast) == SelectSeq(ast.children, IsHeading)

\* _.first(select(heading, `text`).map(text => text.value))
FirstText(h) == IF Len(h.children) = 0 THEN Undefined ELSE h.children[1].value

\* select(ast, `heading`).map(heading => ({value, depth}))
ExtractHeadings(ast) ==
  LET hs == SelectHeadings(ast)
  IN  [i \in DOMAIN hs |-> [value |-> FirstText(hs[i]), depth |-> hs[i].depth]]

\* hastToHTML(toHAST(node.ast)): one element per block of the tree
RenderBlock(n) ==
  [tag |-> IF n.type = "heading" THEN <<"h", n.depth>> ELSE <<"p", 0>>,
   text |-> [i \in DOMAIN n.children |-> n.children[i].value]]

Render(ast) == [i \in DOMAIN ast.children |-> RenderBlock(ast.children[i])]

NoHtml == <<[tag |-> <<"none", 0>>, text |-> <<>>]>>

NoHeadings == <<[value |-> <<"none">>, depth |-> -1]>>

-----------------------------------------------------------------------------
(* The parse cache: astPromiseCache *)

\* Mutant: only a completed parse counts as cached
CacheHitResolvedOnly(cache, id) ==
  cache[id] # 0 /\ runs[cache[id]].st = "resolved"

\* Mutant: a failed run does not count as cached, so the next call retries
CacheHitUnlessFailed(cache, id) ==
  cache[id] # 0 /\ runs[cache[id]].phase # "dead"

\* if (astPromiseCache[markdownNode.id])
CacheHit(cache, id) == cache[id] # 0

\* Mutant: a promise that is already rejected is not stored
StoreUnlessRejected(cache, id, p) ==
  IF runs[p].st = "rejected" THEN cache ELSE [cache EXCEPT ![id] = p]

\* astPromiseCache[markdownNode.id] = new Promise(...)
StoreEntry(cache, id, p) == [cache EXCEPT ![id] = p]

\* Mutant: the whole cache is dropped
InvalidateAll(cache, n) ==
  IF n.type = "MarkdownRemark" THEN [j \in DOMAIN cache |-> 0] ELSE cache

\* onNodeCreate: delete astPromiseCache[node.id] for a MarkdownRemark node
Invalidate(cache, n) ==
  IF n.type = "MarkdownRemark" THEN [cache EXCEPT ![n.id] = 0] ELSE cache

\* Mutant: the HTML entry counts only while the parse cache has an entry too
HtmlCacheHitWithAst(cache, id) == cache[id] # 0 /\ astPromiseCache[id] # 0

\* Mutant: only a completed render counts as cached
HtmlCacheHitResolvedOnly(cache, id) == cache[id] # 0 /\ htmls[cache[id]].st = "resolved"

\* if (htmlPromisesCache[markdownNode.id])
HtmlCacheHit(cache, id) == cache[id] # 0

-----------------------------------------------------------------------------
(* Plugin capabilities *)

\* _.isFunction(requiredPlugin.mutateSource): the hook is invoked and returns a
\* promise or throws; otherwise Promise.resolve()
MutateOutcomes(k) ==
  IF plugins[k].mutateSource THEN {"pending", "throw"} ELSE {"skip"}

\* Mutant: the module is called without the _.isFunction check
AnnotateOutcomesUnchecked(k) ==
  IF plugins[k].callable THEN {"pending", "throw"} ELSE {"throw"}

\* _.isFunction(requiredPlugin): the plugin is invoked and returns a promise or
\* throws; otherwise Promise.resolve()
AnnotateOutcomes(k) ==
  IF plugins[k].callable THEN {"pending", "throw"} ELSE {"skip"}

\* Mutant: a hook that is still pending does not hold the phase back
SettledOrPending(s) == s \in {"skip", "resolved", "pending"}

\* Promise.all resolves: every element is a resolved promise
Settled(s) == s \in {"skip", "resolved"}

-----------------------------------------------------------------------------
(* Field projections *)

\* Mutant: headings of the given depth and deeper
FilterHeadingsAtLeast(hs, depth) ==
  IF depth # 0 THEN SelectSeq(hs, LAMBDA h : h.depth >= depth) ELSE hs

\* headings.resolve: filter when typeof depth === "number" (0 stands for no depth)
FilterHeadings(hs, depth) ==
  IF depth # 0 THEN SelectSeq(hs, LAMBDA h : h.depth = depth) ELSE hs

\* the text runs of the markup with the tags removed: (block, position)
PureText(html) == UNION {{<<b, i>> : i \in DOMAIN html[b].text} : b \in DOMAIN html}

\* _.words(pureText).length: every text run is one word
WordCount(html) == Cardinality(PureText(html))

AvgWPM == 265

\* Mutant: the result 0 is returned as it is
TimeToReadNoFloor(html) == (2 * WordCount(html) + AvgWPM) \div (2 * AvgWPM)

\* Math.round(wordCount / avgWPM), 0 replaced by 1
TimeToRead(html) ==
  LET t == (2 * WordCount(html) + AvgWPM) \div (2 * AvgWPM)
  IN  IF t = 0 THEN 1 ELSE t

\* visit(node.ast, `text`, ...): the text values in document order
RECURSIVE TextValues(_)
TextValues(blocks) ==
  IF blocks = <<>> THEN <<>>
  ELSE [i \in DOMAIN Head(blocks).children |-> Head(blocks).children[i].value]
         \o TextValues(Tail(blocks))

\* textNodes.join(` `)
RECURSIVE Join(_)
Join(ts) ==
  IF ts = <<>> THEN <<>>
  ELSE IF Len(ts) = 1 THEN ts[1]
  ELSE ts[1] \o <<" ">> \o Join(Tail(ts))

\* the characters of the documents, by class
Letters ==
  {"T", "i", "t", "l", "e", "b", "o", "d", "y", "N", "w", "m", "a", "x", "c", "S",
   "A"}

Digits == {"1", "2"}

\* c.toUpperCase() !== c.toLowerCase()
IsLetter(c) == c \in Letters

\* the class \w of the regular expressions
IsWordChar(c) == c \in Letters \cup Digits

\* the class \s
IsSpace(c) == c = " "

\* prune's template: str.slice(0, length + 1) with every character from the
\* one before the last run of separators and word characters on replaced by
\* "A" (a letter) or " " (anything else): replace(/.(?=\W*\w*$)/g, tmpl)
Template(head) ==
  LET n == Len(head)
      Replaced(i) ==
        \E j \in i..n :
          /\ \A k \in (i + 1)..j : ~IsWordChar(head[k])
          /\ \A k \in (j + 1)..n : IsWordChar(head[k])
  IN  [i \in 1..n |->
         IF Replaced(i) THEN (IF IsLetter(head[i]) THEN "A" ELSE " ") ELSE head[i]]

\* rtrim(s): s without its trailing white space
RTrim(s) ==
  LET keep == {i \in 0..Len(s) : \A k \in (i + 1)..Len(s) : IsSpace(s[k])}
  IN  SubSeq(s, 1, CHOOSE i \in keep : \A j \in keep : i <= j)

\* s.replace(/\s*\S+$/, ''): s without its last run of non-space characters
\* and the white space before it
DropLastWord(s) ==
  LET n == Len(s)
      Matches(i) ==
        \E j \in i..n :
          /\ \A k \in i..(j - 1) : IsSpace(s[k])
          /\ \A k \in j..n : ~IsSpace(s[k])
      starts == {i \in 1..n : Matches(i)}
  IN  IF starts = {} THEN s
      ELSE SubSeq(s, 1, (CHOOSE i \in starts : \A j \in starts : i <= j) - 1)

PruneStr == <<".", ".", ".">>

\* prune(str, length) of underscore.string
Prune(str, length) ==
  IF Len(str) <= length THEN str
  ELSE LET template == Template(SubSeq(str, 1, length + 1))
           n == Len(template)
           cut == IF n >= 2 /\ IsWordChar(template[n - 1]) /\ IsWordChar(template[n])
                  THEN DropLastWord(template)
                  ELSE RTrim(SubSeq(template, 1, n - 1))
       IN  IF Len(cut) + Len(PruneStr) > Len(str) THEN str
           ELSE SubSeq(str, 1, Len(cut)) \o PruneStr

\* excerpt.resolve: prune(textNodes.join(` `), pruneLength)
Excerpt(ast, pruneLength) == Prune(Join(TextValues(ast.children)), pruneLength)

\* pruneLength: { type: GraphQLInt, defaultValue: 140 }
DefaultPruneLength == 140

-----------------------------------------------------------------------------
(* Initial state *)

NewNode(src) == [src |-> src, ast |-> NoAST, html |-> NoHtml, headings |-> NoHeadings]

NoRes == <<>>

NoSrc == <<Line(-1, <<>>)>>

Init ==
  /\ astPromiseCache = [id \in MdIds |-> 0]
  /\ htmlPromisesCache = [id \in MdIds |-> 0]
  /\ runs = <<>>
  /\ htmls = <<>>
  /\ node = [id \in MdIds |-> NewNode(DocA)]
  /\ calls = <<>>
  /\ stack = <<>>
  /\ inval = [id \in MdIds |-> 0]
  /\ plugins = Configured
  /\ events = 0

-----------------------------------------------------------------------------
(* The synchronous part of the resolvers *)

Idle == stack = <<>>

Top == stack[Len(stack)]

Pop == SubSeq(stack, 1, Len(stack) - 1)

\* new Promise((resolve, reject) => ...) of getAST: nothing dispatched yet
NewRun(id) ==
  [id |-> id, epoch |-> inval[id], st |-> "pending", phase |-> "mutate",
   mut |-> [k \in PluginIds |-> "none"], ann |-> [k \in PluginIds |-> "none"],
   tree |-> NoAST, parses |-> 0, parsedSrc |-> NoSrc, edited |-> FALSE,
   evicted |-> FALSE]

NewCall(op, id, arg) ==
  [op |-> op, id |-> id, arg |-> arg, epoch |-> inval[id], p |-> 0, hp |-> 0,
   at |-> "miss", st |-> "calling", seen |-> NoAST, res |-> NoRes]

AstFrame(id, p, c) == [kind |-> "ast", id |-> id, h |-> p, i |-> 1, c |-> c]

HtmlFrame(id, hp, c) == [kind |-> "html", id |-> id, h |-> hp, i |-> 0, c |-> c]

\* getAST(markdownNode) called by a resolver (op is excerpt or headings):
\* a cache hit returns the cached promise, a miss enters the Promise executor
GetAST(op, id, arg) ==
  LET c == Len(calls) + 1
  IN  IF CacheHit(astPromiseCache, id)
      THEN /\ calls' = Append(calls, [NewCall(op, id, arg) EXCEPT
                                        !.p = astPromiseCache[id], !.st = "pending",
                                        !.at = runs[astPromiseCache[id]].phase])
           /\ UNCHANGED <<runs, stack>>
      ELSE /\ calls' = Append(calls, NewCall(op, id, arg))
           /\ runs' = Append(runs, NewRun(id))
           /\ stack' = <<AstFrame(id, Len(runs) + 1, c)>>

\* excerpt.resolve: getAST(markdownNode).then(...)
CallExcerpt(id, pruneLength) ==
  /\ Idle
  /\ Len(calls) < MaxCalls
  /\ GetAST("excerpt", id, pruneLength)
  /\ UNCHANGED <<plugins, astPromiseCache, htmlPromisesCache, htmls, node, inval, events>>

\* Mutant: the stored headings count only while the parse cache has an entry
HasHeadingsWhileCached(id) == node[id].headings # NoHeadings /\ astPromiseCache[id] # 0

\* if (markdownNode.headings): a list, also an empty one, is truthy
HasHeadings(id) == node[id].headings # NoHeadings

\* headings.resolve -> getHeadings: a record that has headings is returned as
\* it is, otherwise await getAST(markdownNode)
CallHeadings(id, depth) ==
  /\ Idle
  /\ Len(calls) < MaxCalls
  /\ IF HasHeadings(id)
     THEN /\ calls' = Append(calls, [NewCall("headings", id, depth) EXCEPT
                                       !.st = "pending", !.at = "headings"])
          /\ UNCHANGED <<runs, stack>>
     ELSE GetAST("headings", id, depth)
  /\ UNCHANGED <<plugins, astPromiseCache, htmlPromisesCache, htmls, node, inval, events>>

\* html.resolve and timeToRead.resolve -> getHTML: a cache hit returns the
\* cached promise, a miss enters the executor, which calls getAST
CallGetHTML(op, id) ==
  /\ Idle
  /\ Len(calls) < MaxCalls
  /\ LET c == Len(calls) + 1
         hp == Len(htmls) + 1
     IN  IF HtmlCacheHit(htmlPromisesCache, id)
         THEN /\ calls' = Append(calls, [NewCall(op, id, 0) EXCEPT
                                           !.hp = htmlPromisesCache[id], !.st = "pending",
                                           !.at = "html"])
              /\ UNCHANGED <<runs, htmls, stack>>
         ELSE /\ calls' = Append(calls, NewCall(op, id, 0))
              /\ IF CacheHit(astPromiseCache, id)
                 THEN /\ htmls' = Append(htmls, [id |-> id, epoch |-> inval[id],
                                                 p |-> astPromiseCache[id], st |-> "pending"])
                      /\ stack' = <<HtmlFrame(id, hp, c)>>
                      /\ UNCHANGED runs
                 ELSE                       /\ htmls' = Append(htmls, [id |-> id, epoch |-> inval[id],
                                                 p |-> 0, st |-> "pending"])
                      /\ runs' = Append(runs, NewRun(id))
                      /\ stack' = <<HtmlFrame(id, hp, c), AstFrame(id, Len(runs) + 1, 0)>>
  /\ UNCHANGED <<plugins, astPromiseCache, htmlPromisesCache, node, inval, events>>

\* pluginOptions.plugins.map(plugin => ...) of the mutateSource phase, one
\* plugin per step; a hook that throws makes the executor throw, which rejects
\* the promise under construction
DispatchMutate(o) ==
  /\ ~Idle
  /\ Top.kind = "ast"
  /\ Top.i <= NPlugins
  /\ o \in MutateOutcomes(Top.i)
  /\ o = "throw" => events < MaxEvents
  /\ events' = IF o = "throw" THEN events + 1 ELSE events
  /\ LET p == Top.h
         k == Top.i
     IN  IF o = "throw"
         THEN /\ runs' = [runs EXCEPT ![p].mut[k] = "threw", ![p].st = "rejected",
                                      ![p].phase = "dead"]
              /\ stack' = [stack EXCEPT ![Len(stack)].i = NPlugins + 1]
         ELSE /\ runs' = [runs EXCEPT ![p].mut[k] = o]
              /\ stack' = [stack EXCEPT ![Len(stack)].i = k + 1]
  /\ UNCHANGED <<plugins, astPromiseCache, htmlPromisesCache, htmls, node, calls, inval>>

\* the assignment astPromiseCache[markdownNode.id] = <the new promise>, and
\* return astPromiseCache[markdownNode.id] to the caller
StoreAST ==
  /\ ~Idle
  /\ Top.kind = "ast"
  /\ Top.i > NPlugins
  /\ astPromiseCache' = StoreEntry(astPromiseCache, Top.id, Top.h)
  /\ IF Len(stack) = 1
     THEN /\ calls' = [calls EXCEPT ![Top.c].p = Top.h, ![Top.c].st = "pending"]
          /\ UNCHANGED htmls
     ELSE /\ htmls' = [htmls EXCEPT ![stack[Len(stack) - 1].h].p = Top.h]
          /\ UNCHANGED calls
  /\ stack' = Pop
  /\ UNCHANGED <<plugins, htmlPromisesCache, runs, node, inval, events>>

\* the assignment htmlPromisesCache[markdownNode.id] = <the new promise>
StoreHTML ==
  /\ ~Idle
  /\ Top.kind = "html"
  /\ htmlPromisesCache' = [htmlPromisesCache EXCEPT ![Top.id] = Top.h]
  /\ calls' = [calls EXCEPT ![Top.c].hp = Top.h, ![Top.c].st = "pending"]
  /\ stack' = Pop
  /\ UNCHANGED <<plugins, astPromiseCache, runs, htmls, node, inval, events>>

-----------------------------------------------------------------------------
(* The host's notifications *)

\* Mutant: deleting the entry of a run that is in flight abandons the run
EvictAndCancel(run, n) ==
  IF n.type = "MarkdownRemark" /\ run.id = n.id /\ run.phase \in {"mutate", "annotate"}
  THEN [run EXCEPT !.evicted = TRUE, !.phase = "dead"]
  ELSE run

\* what onNodeCreate does to a run: nothing but losing its cache entry, which
\* is noted when the run is still in flight
Evict(run, n) ==
  IF n.type = "MarkdownRemark" /\ run.id = n.id /\ run.phase \in {"mutate", "annotate"}
  THEN [run EXCEPT !.evicted = TRUE]
  ELSE run

\* exports.onNodeCreate({ node })
OnNodeCreate(n) ==
  /\ Idle
  /\ n.id \in MdIds => events < MaxEvents
  /\ astPromiseCache' = Invalidate(astPromiseCache, n)
  /\ runs' = [p \in DOMAIN runs |-> Evict(runs[p], n)]
  /\ inval' = IF n.id \in MdIds THEN [inval EXCEPT ![n.id] = @ + 1] ELSE inval
  /\ events' = IF n.id \in MdIds THEN events + 1 ELSE events
  /\ UNCHANGED <<plugins, htmlPromisesCache, htmls, node, calls, stack>>

\* the host rewrites the raw source of a record (the user saved the file)
EditSource(id) ==
  /\ Idle
  /\ events < MaxEvents
  /\ node' = [node EXCEPT ![id].src = Edited(@)]
  /\ runs' = [p \in DOMAIN runs |->
                IF runs[p].id = id /\ runs[p].phase = "mutate"
                THEN [runs[p] EXCEPT !.edited = TRUE] ELSE runs[p]]
  /\ events' = events + 1
  /\ UNCHANGED <<plugins, astPromiseCache, htmlPromisesCache, htmls, calls, stack, inval>>

-----------------------------------------------------------------------------
(* The pipeline run: what the promises of getAST schedule *)

\* a promise returned by a mutateSource hook settles; a hook that succeeds has
\* rewritten markdownNode.src.  A rejection rejects Promise.all, whose .then
\* has no rejection handler: neither resolve nor reject is ever called.
MutateSettle(p, k, ok) ==
  /\ Idle
  /\ runs[p].mut[k] = "pending"
  /\ ~ok => events < MaxEvents
  /\ events' = IF ~ok THEN events + 1 ELSE events
  /\ IF ok
     THEN /\ runs' = [runs EXCEPT ![p].mut[k] = "resolved"]
          /\ node' = [node EXCEPT ![runs[p].id].src = MutateSource(k, @)]
     ELSE /\ runs' = [runs EXCEPT ![p].mut[k] = "rejected",
                                  ![p].phase = IF @ = "mutate" THEN "dead" ELSE @]
          /\ UNCHANGED node
  /\ UNCHANGED <<plugins, astPromiseCache, htmlPromisesCache, htmls, calls, stack, inval>>

\* what the annotation hook of plugin k does when the plugins before thrower
\* (all of them when thrower = 0) return and plugin thrower throws
AnnotateDispatch(k, thrower) ==
  IF thrower # 0 /\ k = thrower THEN "threw"
  ELSE IF thrower # 0 /\ k > thrower THEN "none"
  ELSE CHOOSE o \in AnnotateOutcomes(k) : o # "throw"

CanThrowAt(thrower) ==
  /\ thrower # 0 => "throw" \in AnnotateOutcomes(thrower)
  /\ \A k \in PluginIds :
       (thrower = 0 \/ k < thrower) => AnnotateOutcomes(k) # {"throw"}

\* the .then callback of the mutateSource phase: remark.parse, then the
\* annotation hooks are invoked in configured order
ParseAndAnnotate(p, thrower) ==
  /\ Idle
  /\ runs[p].phase = "mutate"
  /\ \A k \in PluginIds : Settled(runs[p].mut[k])
  /\ CanThrowAt(thrower)
  /\ thrower # 0 => events < MaxEvents
  /\ events' = IF thrower # 0 THEN events + 1 ELSE events
  /\ runs' = [runs EXCEPT
       ![p].tree = Parse(node[runs[p].id].src),
       ![p].parses = @ + 1,
       ![p].parsedSrc = node[runs[p].id].src,
       ![p].ann = [k \in PluginIds |-> AnnotateDispatch(k, thrower)],
       ![p].phase = IF thrower = 0 THEN "annotate" ELSE "dead"]
  /\ UNCHANGED <<plugins, astPromiseCache, htmlPromisesCache, htmls, node, calls, stack, inval>>

\* a promise returned by an annotation hook settles; a hook that succeeds has
\* annotated markdownAST in place
AnnotateSettle(p, k, ok) ==
  /\ Idle
  /\ runs[p].ann[k] = "pending"
  /\ ~ok => events < MaxEvents
  /\ events' = IF ~ok THEN events + 1 ELSE events
  /\ IF ok
     THEN runs' = [runs EXCEPT ![p].ann[k] = "resolved",
                               ![p].tree = Annotate(k, @)]
     ELSE runs' = [runs EXCEPT ![p].ann[k] = "rejected",
                               ![p].phase = IF @ = "annotate" THEN "dead" ELSE @]
  /\ UNCHANGED <<plugins, astPromiseCache, htmlPromisesCache, htmls, node, calls, stack, inval>>

\* the .then callback of the annotation phase:
\* markdownNode.ast = markdownAST; resolve(markdownNode)
Finish(p) ==
  /\ Idle
  /\ runs[p].phase = "annotate"
  /\ \A k \in PluginIds : Settled(runs[p].ann[k])
  /\ node' = [node EXCEPT ![runs[p].id].ast = runs[p].tree]
  /\ runs' = [runs EXCEPT ![p].st = "resolved", ![p].phase = "done"]
  /\ UNCHANGED <<plugins, astPromiseCache, htmlPromisesCache, htmls, calls, stack, inval, events>>

\* getHTML: getAST(markdownNode).then(node => { node.html = ...; resolve(node) });
\* a conversion that throws leaves the promise of getHTML pending for ever
HtmlRender(hp, ok) ==
  /\ Idle
  /\ htmls[hp].st = "pending"
  /\ htmls[hp].p # 0
  /\ runs[htmls[hp].p].st = "resolved"
  /\ ~ok => events < MaxEvents
  /\ events' = IF ~ok THEN events + 1 ELSE events
  /\ IF ok
     THEN /\ node' = [node EXCEPT ![htmls[hp].id].html = Render(node[htmls[hp].id].ast)]
          /\ htmls' = [htmls EXCEPT ![hp].st = "resolved"]
     ELSE /\ htmls' = [htmls EXCEPT ![hp].st = "stuck"]
          /\ UNCHANGED node
  /\ UNCHANGED <<plugins, astPromiseCache, htmlPromisesCache, runs, calls, stack, inval>>

-----------------------------------------------------------------------------
(* The resolvers' .then callbacks *)

Waiting(c, op) == calls[c].op = op /\ calls[c].st = "pending"

\* excerpt.resolve: .then(node => prune(textNodes.join(` `), pruneLength))
ExcerptThen(c) ==
  /\ Idle
  /\ Waiting(c, "excerpt")
  /\ runs[calls[c].p].st \in {"resolved", "rejected"}
  /\ calls' = IF runs[calls[c].p].st = "resolved"
              THEN [calls EXCEPT ![c].st = "done",
                                 ![c].seen = node[calls[c].id].ast,
                                 ![c].res = Excerpt(node[calls[c].id].ast, calls[c].arg)]
              ELSE [calls EXCEPT ![c].st = "failed"]
  /\ UNCHANGED <<plugins, astPromiseCache, htmlPromisesCache, runs, htmls, node, stack, inval, events>>

\* getHeadings after await getAST, then headings.resolve's .then
HeadingsThen(c) ==
  /\ Idle
  /\ Waiting(c, "headings")
  /\ IF calls[c].p = 0
     THEN /\ calls' = [calls EXCEPT ![c].st = "done",
                 ![c].res = FilterHeadings(node[calls[c].id].headings, calls[c].arg)]
          /\ UNCHANGED node
     ELSE /\ runs[calls[c].p].st \in {"resolved", "rejected"}
          /\ IF runs[calls[c].p].st = "resolved"
             THEN LET hs == ExtractHeadings(node[calls[c].id].ast)
                  IN  /\ node' = [node EXCEPT ![calls[c].id].headings = hs]
                      /\ calls' = [calls EXCEPT ![c].st = "done",
                                     ![c].seen = node[calls[c].id].ast,
                                     ![c].res = FilterHeadings(hs, calls[c].arg)]
             ELSE /\ calls' = [calls EXCEPT ![c].st = "failed"]
                  /\ UNCHANGED node
  /\ UNCHANGED <<plugins, astPromiseCache, htmlPromisesCache, runs, htmls, stack, inval, events>>

\* html.resolve: getHTML(markdownNode).then(node => node.html)
HtmlThen(c) ==
  /\ Idle
  /\ Waiting(c, "html")
  /\ htmls[calls[c].hp].st = "resolved"
  /\ calls' = [calls EXCEPT ![c].st = "done", ![c].res = node[calls[c].id].html]
  /\ UNCHANGED <<plugins, astPromiseCache, htmlPromisesCache, runs, htmls, node, stack, inval, events>>

\* timeToRead.resolve: getHTML(markdownNode).then(node => ...)
TimeToReadThen(c) ==
  /\ Idle
  /\ Waiting(c, "timeToRead")
  /\ htmls[calls[c].hp].st = "resolved"
  /\ calls' = [calls EXCEPT ![c].st = "done",
                            ![c].res = <<TimeToRead(node[calls[c].id].html)>>]
  /\ UNCHANGED <<plugins, astPromiseCache, htmlPromisesCache, runs, htmls, node, stack, inval, events>>

-----------------------------------------------------------------------------

\* what getAST and getHTML schedule through promises
Pipeline ==
  \/ \E o \in {"pending", "throw", "skip"} : DispatchMutate(o)
  \/ StoreAST
  \/ \E p \in DOMAIN runs, k \in PluginIds, ok \in BOOLEAN : MutateSettle(p, k, ok)
  \/ \E p \in DOMAIN runs, t \in 0..NPlugins : ParseAndAnnotate(p, t)
  \/ \E p \in DOMAIN runs, k \in PluginIds, ok \in BOOLEAN : AnnotateSettle(p, k, ok)
  \/ \E p \in DOMAIN runs : Finish(p)

\* Both records, read through the excerpt resolver: the parse cache and the
\* pipeline run; the source that the host rewrites is that of record 1
Next ==
  \/ \E id \in MdIds : CallExcerpt(id, DefaultPruneLength)
  \/ \E n \in HostNodes : OnNodeCreate(n)
  \/ EditSource(1)
  \/ Pipeline
  \/ \E c \in DOMAIN calls : ExcerptThen(c)

Spec == Init /\ [][Next]_vars

\* the .then callbacks of the excerpt calls
Deliver == \E c \in DOMAIN calls : ExcerptThen(c)

\* Record 1, read through excerpt and invalidated by the host
NextLive ==
  \/ CallExcerpt(1, DefaultPruneLength)
  \/ OnNodeCreate(MdNode(1))
  \/ Pipeline
  \/ Deliver

\* with the scheduling of the event loop: a callback whose promise has settled
\* is run, and a promise returned by a plugin settles
SpecLive == Init /\ [][NextLive]_vars /\ WF_vars(Pipeline) /\ WF_vars(Deliver)

\* Record 1, read through the html and timeToRead resolvers: the HTML cache on
\* top of the parse cache
NextHtml ==
  \/ \E op \in {"html", "timeToRead"} : CallGetHTML(op, 1)
  \/ \E n \in {MdNode(1), FileNode} : OnNodeCreate(n)
  \/ EditSource(1)
  \/ Pipeline
  \/ StoreHTML
  \/ \E hp \in DOMAIN htmls, ok \in BOOLEAN : HtmlRender(hp, ok)
  \/ \E c \in DOMAIN calls : HtmlThen(c)
  \/ \E c \in DOMAIN calls : TimeToReadThen(c)

SpecHtml == Init /\ [][NextHtml]_vars

\* the longest document of SpecHeadings, in lines
MaxDocLen == 4

HeadingLines ==
  {Line(1, << <<"a">> >>), Line(2, << <<"b">>, <<"x">> >>), Line(2, << <<"c">> >>),
   Line(3, <<>>)}

HeadingDocs == UNION {[1..n -> HeadingLines] : n \in 0..MaxDocLen}

\* the depth arguments tried: none (0) and h2, which HeadingDocs has headings
\* below, at and above
HeadingDepths == {0, 2}

\* Record 1 holds any of the documents and nothing disturbs the pipeline
InitHeadings ==
  /\ astPromiseCache = [id \in MdIds |-> 0]
  /\ htmlPromisesCache = [id \in MdIds |-> 0]
  /\ runs = <<>>
  /\ htmls = <<>>
  /\ \E doc \in HeadingDocs :
       node = [id \in MdIds |-> IF id = 1 THEN NewNode(doc) ELSE NewNode(DocA)]
  /\ calls = <<>>
  /\ stack = <<>>
  /\ inval = [id \in MdIds |-> 0]
  /\ plugins = Configured
  /\ events = MaxEvents

\* Record 1, read through the headings resolver
NextHeadings ==
  \/ \E d \in HeadingDepths : CallHeadings(1, d)
  \/ Pipeline
  \/ \E c \in DOMAIN calls : HeadingsThen(c)

SpecHeadings == InitHeadings /\ [][NextHeadings]_vars

\* Record 1, read through headings while the host recreates it and rewrites
\* its source
NextRecreate ==
  \/ \E d \in HeadingDepths : CallHeadings(1, d)
  \/ OnNodeCreate(MdNode(1))
  \/ EditSource(1)
  \/ Pipeline
  \/ \E c \in DOMAIN calls : HeadingsThen(c)

SpecRecreate == Init /\ [][NextRecreate]_vars

\* Both records under the plugin list TwoPlugins
InitOrder ==
  /\ astPromiseCache = [id \in MdIds |-> 0]
  /\ htmlPromisesCache = [id \in MdIds |-> 0]
  /\ runs = <<>>
  /\ htmls = <<>>
  /\ node = [id \in MdIds |-> NewNode(DocA)]
  /\ calls = <<>>
  /\ stack = <<>>
  /\ inval = [id \in MdIds |-> 0]
  /\ plugins = TwoPlugins
  /\ events = 0

NextOrder ==
  \/ \E id \in MdIds : CallExcerpt(id, DefaultPruneLength)
  \/ Pipeline
  \/ \E c \in DOMAIN calls : ExcerptThen(c)

SpecOrder == InitOrder /\ [][NextOrder]_vars

\* the longest document of SpecReading, in words
MaxWords == 400

\* a document of w paragraphs of one word each
ReadingDoc(w) == [i \in 1..w |-> Line(0, << <<"w">> >>)]

\* Record 1 holds a document of any length, no plugin is configured and
\* nothing disturbs the pipeline
InitReading ==
  /\ astPromiseCache = [id \in MdIds |-> 0]
  /\ htmlPromisesCache = [id \in MdIds |-> 0]
  /\ runs = <<>>
  /\ htmls = <<>>
  /\ \E w \in 0..MaxWords :
       node = [id \in MdIds |-> IF id = 1 THEN NewNode(ReadingDoc(w)) ELSE NewNode(DocA)]
  /\ calls = <<>>
  /\ stack = <<>>
  /\ inval = [id \in MdIds |-> 0]
  /\ plugins = <<>>
  /\ events = MaxEvents

\* Record 1, read through the timeToRead resolver
NextReading ==
  \/ CallGetHTML("timeToRead", 1)
  \/ StoreAST
  \/ StoreHTML
  \/ \E p \in DOMAIN runs : ParseAndAnnotate(p, 0)
  \/ \E p \in DOMAIN runs : Finish(p)
  \/ \E hp \in DOMAIN htmls : HtmlRender(hp, TRUE)
  \/ \E c \in DOMAIN calls : TimeToReadThen(c)

SpecReading == InitReading /\ [][NextReading]_vars

\* the longest text run of the generated documents of SpecExcerpt
MaxTextLen == 3

SomeBodyText ==
  <<"S", "o", "m", "e", " ", "b", "o", "d", "y", " ", "t", "e", "x", "t", ".">>

\* the source "# Title\n\nSome body text."
ExampleDoc == <<Line(1, <<TitleText>>), Line(0, <<SomeBodyText>>)>>

ExcerptChars == {"a", " ", ","}

ExcerptTexts == UNION {[1..n -> ExcerptChars] : n \in 1..MaxTextLen}

\* the example, and every paragraph of one generated text run
ExcerptDocs == {ExampleDoc} \cup {<<Line(0, <<t>>)>> : t \in ExcerptTexts}

\* the pruneLength arguments tried
PruneLengths == {0, 2, 5, 9, DefaultPruneLength}

\* Record 1 holds any of the documents, no plugin is configured and nothing
\* disturbs the pipeline
InitExcerpt ==
  /\ astPromiseCache = [id \in MdIds |-> 0]
  /\ htmlPromisesCache = [id \in MdIds |-> 0]
  /\ runs = <<>>
  /\ htmls = <<>>
  /\ \E doc \in ExcerptDocs :
       node = [id \in MdIds |-> IF id = 1 THEN NewNode(doc) ELSE NewNode(DocA)]
  /\ calls = <<>>
  /\ stack = <<>>
  /\ inval = [id \in MdIds |-> 0]
  /\ plugins = <<>>
  /\ events = MaxEvents

\* Record 1, read through the excerpt resolver
NextExcerpt ==
  \/ \E n \in PruneLengths : CallExcerpt(1, n)
  \/ StoreAST
  \/ \E p \in DOMAIN runs : ParseAndAnnotate(p, 0)
  \/ \E p \in DOMAIN runs : Finish(p)
  \/ \E c \in DOMAIN calls : ExcerptThen(c)

SpecExcerpt == InitExcerpt /\ [][NextExcerpt]_vars

-----------------------------------------------------------------------------
(* Vocabulary of the claims *)

\* the run is still computing: neither resolved nor failed
InFlight(p) == runs[p].phase \in {"mutate", "annotate"}

\* a plugin call of the run threw or rejected
RunFailed(p) == runs[p].phase = "dead"

\* the tree without the plugins' annotations
Strip(ast) == [ast EXCEPT !.data = {}]

RunsOf(id) == {p \in DOMAIN runs : runs[p].id = id}

\* the calls that went through getAST
ViaGetAST == {c \in DOMAIN calls : calls[c].p # 0}

\* nothing that a promise has scheduled is left to run
Quiescent == Idle /\ ~ENABLED (Pipeline \/ \E c \in DOMAIN calls : ExcerptThen(c))

-----------------------------------------------------------------------------
\* C1: getAST calls for one id with no invalidation of id between them all
\* get the promise of one and the same pipeline run, which parses at most
\* once: they resolve to the record that run resolves with.
C1_OneRunPerEpoch ==
  /\ \A c1, c2 \in ViaGetAST :
       (calls[c1].id = calls[c2].id /\ calls[c1].epoch = calls[c2].epoch)
         => calls[c1].p = calls[c2].p
  /\ \A p1, p2 \in DOMAIN runs :
       (runs[p1].id = runs[p2].id /\ runs[p1].epoch = runs[p2].epoch) => p1 = p2
  /\ \A p \in DOMAIN runs : runs[p].parses <= 1
  /\ \A c \in ViaGetAST : calls[c].st = "done" => runs[calls[c].p].parses = 1

\* a second call arrived while the run was in flight and both are answered
C1_Witness ==
  \E c1, c2 \in ViaGetAST :
    /\ c1 < c2
    /\ calls[c2].at \in {"mutate", "annotate"}
    /\ calls[c1].p = calls[c2].p
    /\ calls[c1].st = "done" /\ calls[c2].st = "done"

\* C2: at most one pipeline run is in flight for any identifier, whatever the
\* interleaving of calls, completions and invalidations.
C2_AtMostOneInFlight ==
  \A id \in MdIds : Cardinality({p \in RunsOf(id) : InFlight(p)}) <= 1

\* C3: a request made after an invalidation of id is answered by exactly one
\* new parse, and the record.ast it obtains is the parse of the source as it
\* was at that new parse.
C3_FreshParseAfterInvalidate ==
  \A c \in ViaGetAST :
    (calls[c].st = "done" /\ calls[c].epoch > 0) =>
      LET p == calls[c].p
      IN  /\ runs[p].epoch = calls[c].epoch
          /\ runs[p].parses = 1
          /\ Strip(calls[c].seen) = Parse(runs[p].parsedSrc)

\* C4: when a plugin call of a run has failed, every caller awaiting getAST
\* for that id has observed a failure once nothing is left to run.
C4_FailureObserved ==
  Quiescent =>
    \A c \in ViaGetAST : RunFailed(calls[c].p) => calls[c].st = "failed"

\* C5 as claimed: whenever a mutateSource hook of a run has been invoked, and
\* the id has not been invalidated since, the run's promise is the cache entry.
C5_StoredBeforeHooks ==
  \A p \in DOMAIN runs :
    ((\E k \in PluginIds : runs[p].mut[k] \notin {"none", "skip"})
       /\ inval[runs[p].id] = runs[p].epoch)
      => astPromiseCache[runs[p].id] = p

\* C5 as amended: once the synchronous call that started a run has returned,
\* and until the id is invalidated, the run's promise is the cache entry, so
\* that every later getAST call for the id finds it.
C5_StoredBeforeReturn ==
  \A p \in DOMAIN runs :
    (Idle /\ inval[runs[p].id] = runs[p].epoch) => astPromiseCache[runs[p].id] = p

\* a later call found the entry while the first hook was still pending
C5_Witness ==
  \E c \in ViaGetAST :
    /\ calls[c].at = "mutate"
    /\ \E k \in PluginIds : runs[calls[c].p].mut[k] = "pending"
    /\ astPromiseCache[calls[c].id] = calls[c].p

\* C6: onNodeCreate for a Markdown record removes the entry of its id, present
\* or not, and changes no other entry; a second application changes nothing.
C6_InvalidateOnlyThatId ==
  /\ [](\A n \in HostNodes :
          /\ Invalidate(Invalidate(astPromiseCache, n), n) = Invalidate(astPromiseCache, n)
          /\ (n.id \in MdIds /\ astPromiseCache[n.id] = 0)
               => Invalidate(astPromiseCache, n) = astPromiseCache)
  /\ [][\A n \in HostNodes : OnNodeCreate(n) =>
          /\ n.id \in MdIds => astPromiseCache'[n.id] = 0
          /\ \A j \in MdIds \ {n.id} : astPromiseCache'[j] = astPromiseCache[j]]_vars

\* record 1 was invalidated while it had an entry, and record 2 kept its entry
C6_Witness ==
  /\ inval[1] = 1 /\ astPromiseCache[1] = 0
  /\ \E p \in RunsOf(1) : runs[p].epoch = 0
  /\ astPromiseCache[2] # 0

\* C7: onNodeCreate leaves the HTML cache alone; an html or timeToRead call
\* that finds the entry starts no pipeline run and no render, and at most one
\* getHTML promise is ever made for the record.
C7_HtmlCacheSurvives ==
  /\ [](\A id \in MdIds : Cardinality({hp \in DOMAIN htmls : htmls[hp].id = id}) <= 1)
  /\ [][/\ \A n \in HostNodes : OnNodeCreate(n) =>
             htmlPromisesCache' = htmlPromisesCache /\ htmls' = htmls
        /\ \A id \in MdIds, op \in {"html", "timeToRead"} :
             (CallGetHTML(op, id) /\ htmlPromisesCache[id] # 0) =>
               /\ runs' = runs /\ htmls' = htmls
               /\ calls'[Len(calls')].hp = htmlPromisesCache[id]]_vars

\* an html call made after an invalidation and a source edit was answered with
\* the HTML of the old source
C7_Witness ==
  \E c \in DOMAIN calls :
    /\ calls[c].op = "html" /\ calls[c].at = "html" /\ calls[c].st = "done"
    /\ htmls[calls[c].hp].epoch < calls[c].epoch
    /\ node[calls[c].id].src[1] = DocB[1]
    /\ calls[c].res[1].tag = <<"h", 1>>

\* C8: while the promise of a failed run is the cache entry of id, a getAST
\* call for id gets that promise and starts no run, the failed run never
\* parses, and only onNodeCreate(id) removes the entry; a run for id starts
\* only when id has no entry.
C8_FailedRunStaysCached ==
  /\ [][\A id \in MdIds :
          LET p == astPromiseCache[id]
          IN  (p # 0 /\ RunFailed(p)) =>
                /\ CallExcerpt(id, DefaultPruneLength) =>
                     runs' = runs /\ Idle' /\ calls'[Len(calls')].p = p
                /\ runs'[p].parses = runs[p].parses
                /\ astPromiseCache'[id] # p => OnNodeCreate(MdNode(id))]_vars
  /\ [][\A p \in DOMAIN runs' \ DOMAIN runs :
          astPromiseCache[runs'[p].id] = 0]_vars

\* a call made after the run had failed was given the failed run's promise
C8_Witness ==
  \E c \in ViaGetAST :
    /\ calls[c].at = "dead"
    /\ RunFailed(calls[c].p)
    /\ astPromiseCache[calls[c].id] = calls[c].p

\* C9: a plugin that exposes only mutateSource is never invoked and never
\* fails in the annotation phase; a run parses at most once, and a run that
\* resolves has parsed once, after the plugin's mutateSource settled, and its
\* tree is the parse of the source as it then was: the mutated source, unless
\* the host rewrote the source in between.
C9_MutateOnlyPlugin ==
  \A p \in DOMAIN runs :
    /\ \A k \in PluginIds : ~plugins[k].callable => runs[p].ann[k] \in {"none", "skip"}
    /\ runs[p].parses <= 1
    /\ runs[p].st = "resolved" =>
         /\ runs[p].parses = 1
         /\ Strip(runs[p].tree) = Parse(runs[p].parsedSrc)
         /\ \A k \in PluginIds : plugins[k].mutateSource =>
              /\ runs[p].mut[k] = "resolved"
              /\ ~runs[p].edited => Contains(runs[p].parsedSrc, Marker(k))

\* a run resolved and the record's tree holds the paragraph the plugin wrote
C9_Witness ==
  \E p \in DOMAIN runs :
    /\ runs[p].st = "resolved"
    /\ node[runs[p].id].ast = runs[p].tree
    /\ Contains(runs[p].tree.children, ParseLine(Marker(1)))

\* the headings of a source whose depth is d (all of them for d = 0), in
\* document order, each with its first text run
DocHeadings(src, d) ==
  LET hs == SelectSeq(src, LAMBDA l : l.depth > 0 /\ (d = 0 \/ l.depth = d))
  IN  [i \in DOMAIN hs |->
         [value |-> IF hs[i].texts = <<>> THEN Undefined ELSE hs[i].texts[1],
          depth |-> hs[i].depth]]

\* C10: headings(depth = d) returns exactly the document's headings of depth
\* d, in document order, and headings() returns every heading in document
\* order.
C10_HeadingsByDepth ==
  \A c \in DOMAIN calls :
    (calls[c].op = "headings" /\ calls[c].st = "done") =>
      calls[c].res = DocHeadings(node[calls[c].id].src, calls[c].arg)

\* headings(depth = 2) on a document with depths [1,2,2,3] returned the two
\* depth-2 headings in their order
C10_Witness ==
  \E c \in DOMAIN calls :
    /\ calls[c].op = "headings" /\ calls[c].st = "done" /\ calls[c].arg = 2
    /\ LET all == DocHeadings(node[calls[c].id].src, 0)
       IN  [i \in DOMAIN all |-> all[i].depth] = <<1, 2, 2, 3>>
    /\ calls[c].res = <<[value |-> <<"b">>, depth |-> 2], [value |-> <<"c">>, depth |-> 2]>>

\* C11: timeToRead returns max(1, round(w / 265)) for the word count w of the
\* sanitized HTML: a value t >= 1 which is 1 when w / 265 rounds to 0 and
\* otherwise the integer with t - 1/2 <= w / 265 < t + 1/2.
C11_TimeToReadRounded ==
  \A c \in DOMAIN calls :
    (calls[c].op = "timeToRead" /\ calls[c].st = "done") =>
      LET w == WordCount(node[calls[c].id].html)
          t == calls[c].res[1]
      IN  /\ t >= 1
          /\ \/ t = 1 /\ 2 * w < 265
             \/ 530 * t - 265 <= 2 * w /\ 2 * w < 530 * t + 265

\* timeToRead of the empty document returned 1
C11_Witness ==
  \E c \in DOMAIN calls :
    /\ calls[c].op = "timeToRead" /\ calls[c].st = "done"
    /\ node[calls[c].id].src = <<>>
    /\ WordCount(node[calls[c].id].html) = 0
    /\ calls[c].res = <<1>>

\* the length of the longest common prefix of r and s
CommonPrefix(r, s) ==
  LET same == {k \in 0..Len(s) : k <= Len(r) /\ SubSeq(r, 1, k) = SubSeq(s, 1, k)}
  IN  CHOOSE k \in same : \A j \in same : j <= k

\* r stops inside a word of s: the characters of s before and after the place
\* where r leaves s are both word characters
EndsMidWord(r, s) ==
  LET k == CommonPrefix(r, s)
  IN  0 < k /\ k < Len(s) /\ IsWordChar(s[k]) /\ IsWordChar(s[k + 1])

\* C12: the string excerpt(pruneLength) returns has at most pruneLength
\* characters and does not end in the middle of a word of the joined text.
C12_ExcerptWithinLength ==
  \A c \in DOMAIN calls :
    (calls[c].op = "excerpt" /\ calls[c].st = "done") =>
      LET joined == Join(TextValues(calls[c].seen.children))
      IN  /\ Len(calls[c].res) <= calls[c].arg
          /\ ~EndsMidWord(calls[c].res, joined)

\* a hook of the phase has been invoked for plugin k
Invoked(s) == s \in {"pending", "resolved", "rejected", "threw"}

\* C13: the parse of a run is performed only after every mutateSource call of
\* the run has settled (each resolved, or skipped for want of the hook), no
\* annotation hook is invoked before the parse, and a run parses once: never
\* twice, and exactly once in every run that got past the mutateSource phase.
C13_PhaseBarrier ==
  /\ [](\A p \in DOMAIN runs :
          /\ runs[p].parses <= 1
          /\ runs[p].parses = 1 =>
               \A k \in PluginIds : runs[p].mut[k] \in {"skip", "resolved"}
          /\ (\E k \in PluginIds : runs[p].ann[k] # "none") => runs[p].parses = 1
          /\ runs[p].phase \in {"annotate", "done"} => runs[p].parses = 1
          /\ runs[p].parses = 0 => runs[p].tree = NoAST)
  /\ [][\A p \in DOMAIN runs :
          runs'[p].parses # runs[p].parses =>
            /\ \A k \in PluginIds : runs[p].mut[k] \in {"skip", "resolved"}
            /\ \A k \in PluginIds : runs[p].ann[k] = "none"]_vars

\* both mutateSource hooks were pending, the parse waited for the later one,
\* and the annotation hooks were invoked with the parse
C13_Witness ==
  \E p \in DOMAIN runs :
    /\ \A k \in PluginIds : runs[p].mut[k] = "resolved"
    /\ runs[p].parses = 1
    /\ \A k \in PluginIds : runs[p].ann[k] = "pending"
    /\ Contains(runs[p].parsedSrc, Marker(1)) /\ Contains(runs[p].parsedSrc, Marker(2))

\* the hook has returned and its promise is no longer pending
Completed(s) == s \in {"skip", "resolved", "rejected", "threw"}

\* C14: within a phase the hook of plugin k + 1 is not started before the hook
\* of plugin k has completed.
C14_StrictSequence ==
  \A p \in DOMAIN runs : \A k \in PluginIds \ {NPlugins} :
    /\ Invoked(runs[p].mut[k + 1]) => Completed(runs[p].mut[k])
    /\ Invoked(runs[p].ann[k + 1]) => Completed(runs[p].ann[k])

\* nothing that a promise has scheduled is left to run (html and timeToRead)
QuiescentHtml ==
  /\ Idle
  /\ ~ENABLED (\/ Pipeline
               \/ StoreHTML
               \/ \E hp \in DOMAIN htmls, ok \in BOOLEAN : HtmlRender(hp, ok)
               \/ \E c \in DOMAIN calls : HtmlThen(c)
               \/ \E c \in DOMAIN calls : TimeToReadThen(c))

\* the pipeline run or the render behind the getHTML promise hp has failed
HtmlFailed(hp) ==
  \/ htmls[hp].st = "stuck"
  \/ htmls[hp].p # 0 /\ RunFailed(htmls[hp].p)

\* C15: when the pipeline run or the render for a record has failed, every
\* html and timeToRead call for it has ended with a failure once nothing is
\* left to run: none is still pending and none has returned a value.
C15_HtmlFailureObserved ==
  QuiescentHtml =>
    \A c \in DOMAIN calls :
      (calls[c].op \in {"html", "timeToRead"} /\ calls[c].hp # 0
         /\ HtmlFailed(calls[c].hp))
        => calls[c].st = "failed"

\* a plugin call of the run threw or rejected
PluginFailed(p) ==
  \E k \in PluginIds :
    runs[p].mut[k] \in {"threw", "rejected"} \/ runs[p].ann[k] \in {"threw", "rejected"}

\* call c is awaiting a run whose cache entry was deleted while it was in flight
AwaitsEvicted(c) ==
  IF c \in DOMAIN calls
  THEN IF calls[c].p # 0
       THEN calls[c].st = "pending" /\ runs[calls[c].p].evicted
       ELSE FALSE
  ELSE FALSE

\* call c has received the record, or a plugin call of its run has failed
AnsweredUnlessFailed(c) ==
  IF c \in DOMAIN calls
  THEN IF calls[c].p # 0
       THEN calls[c].st = "done" \/ PluginFailed(calls[c].p)
       ELSE FALSE
  ELSE FALSE

\* C16: a caller awaiting a run whose cache entry onNodeCreate deleted while
\* the run was in flight is answered in the end, unless a plugin call of the
\* run fails: the run is not cancelled.
C16_NeverCancelled ==
  \A c \in 1..MaxCalls : AwaitsEvicted(c) ~> AnsweredUnlessFailed(c)

\* a caller was answered by a run that lost its cache entry in flight
C16_Witness ==
  \E c \in ViaGetAST :
    /\ calls[c].st = "done"
    /\ runs[calls[c].p].evicted /\ runs[calls[c].p].st = "resolved"
    /\ astPromiseCache[calls[c].id] # calls[c].p
    /\ ~PluginFailed(calls[c].p)

\* the plugins whose annotation hook is invoked
Annotators == {k \in PluginIds : plugins[k].callable}

\* C17: record.ast is assigned only by a run all of whose annotation hooks
\* have resolved, and then it is that run's tree with every annotation; a run
\* with a plugin call that failed never assigns it and never resolves.
C17_NoPartialTree ==
  /\ [](/\ \A id \in MdIds :
             node[id].ast # NoAST => node[id].ast.data = Annotators
         /\ \A p \in DOMAIN runs :
             PluginFailed(p) => runs[p].st # "resolved" /\ runs[p].phase # "done")
  /\ [][\A id \in MdIds :
          node'[id].ast # node[id].ast =>
            \E p \in RunsOf(id) :
              /\ \A k \in PluginIds : runs[p].ann[k] \in {"skip", "resolved"}
              /\ \A k \in PluginIds : runs[p].mut[k] \in {"skip", "resolved"}
              /\ runs[p].parses = 1
              /\ node'[id].ast = runs[p].tree]_vars

\* one record got the tree of a run whose hooks all resolved, while the run of
\* the other record, with one annotation made and one failed, assigned nothing
C17_Witness ==
  \E p, q \in DOMAIN runs :
    /\ runs[p].id # runs[q].id
    /\ runs[p].st = "resolved"
    /\ node[runs[p].id].ast = runs[p].tree /\ runs[p].tree.data = {1, 2}
    /\ runs[q].ann[1] = "resolved" /\ runs[q].ann[2] = "rejected"
    /\ runs[q].tree.data = {1}
    /\ node[runs[q].id].ast = NoAST

\* the html and timeToRead calls for id that have been given a getHTML promise
ViaGetHTML(id) ==
  {c \in DOMAIN calls : calls[c].id = id /\ calls[c].op \in {"html", "timeToRead"}
                          /\ calls[c].hp # 0}

\* the render of the getHTML promise hp has been performed
Rendered(hp) == htmls[hp].st \in {"resolved", "stuck"}

\* C18: the render is performed at most once for a record: every html and
\* timeToRead call for it holds the same getHTML promise, a render starts only
\* when none was performed before, markup once rendered is never replaced,
\* and the calls that are answered are answered from it.
C18_RenderAtMostOnce ==
  /\ [](\A id \in MdIds :
          /\ \A c1, c2 \in ViaGetHTML(id) : calls[c1].hp = calls[c2].hp
          /\ Cardinality({hp \in DOMAIN htmls : htmls[hp].id = id /\ Rendered(hp)}) <= 1
          /\ \A c \in ViaGetHTML(id) :
               calls[c].st = "done" =>
                 /\ htmls[calls[c].hp].st = "resolved"
                 /\ calls[c].res = IF calls[c].op = "html" THEN node[id].html
                                   ELSE <<TimeToRead(node[id].html)>>)
  /\ [][\A id \in MdIds :
          /\ node[id].html # NoHtml => node'[id].html = node[id].html
          /\ \A hp \in DOMAIN htmls :
               (htmls[hp].id = id /\ ~Rendered(hp) /\ htmls'[hp].st \in {"resolved", "stuck"})
                 => /\ node[id].html = NoHtml
                    /\ \A h2 \in DOMAIN htmls : htmls[h2].id = id => ~Rendered(h2)]_vars

\* an html call and a timeToRead call hold the one getHTML promise, which is
\* pending: the later call arrived before the render
C18_Witness ==
  \E c1, c2 \in ViaGetHTML(1) :
    /\ c1 < c2
    /\ calls[c1].op # calls[c2].op
    /\ calls[c1].hp = calls[c2].hp
    /\ calls[c1].st = "pending" /\ calls[c2].st = "pending"
    /\ htmls[calls[c1].hp].st = "pending"
    /\ htmlPromisesCache[1] = calls[c1].hp

\* C19: once a record has a headings list, a headings call on it, with or
\* without depth, starts no run and does not go through getAST, and its answer
\* is the stored list filtered by the depth, the list being left as it is;
\* onNodeCreate and a rewrite of the source leave the list as it is as well.
C19_StoredHeadingsReused ==
  /\ [][\A d \in HeadingDepths :
          (CallHeadings(1, d) /\ node[1].headings # NoHeadings) =>
            /\ runs' = runs /\ stack' = <<>> /\ node' = node
            /\ astPromiseCache' = astPromiseCache
            /\ calls'[Len(calls')].p = 0]_vars
  /\ [][\A c \in DOMAIN calls :
          (HeadingsThen(c) /\ calls[c].at = "headings") =>
            /\ node' = node /\ runs' = runs
            /\ calls'[c].res =
                 IF calls[c].arg = 0 THEN node[1].headings
                 ELSE SelectSeq(node[1].headings, LAMBDA h : h.depth = calls[c].arg)]_vars
  /\ [][(OnNodeCreate(MdNode(1)) \/ EditSource(1)) =>
          node'[1].headings = node[1].headings]_vars
  /\ [](\A c \in DOMAIN calls :
          calls[c].at = "headings" => calls[c].p = 0 /\ calls[c].st # "failed")

\* after onNodeCreate and a rewrite of the source, headings() was answered with
\* the heading of the old source, and no second run was started
C19_Witness ==
  \E c \in DOMAIN calls :
    /\ calls[c].op = "headings" /\ calls[c].at = "headings" /\ calls[c].st = "done"
    /\ calls[c].epoch > 0 /\ astPromiseCache[1] = 0
    /\ node[1].src[1] = DocB[1]
    /\ calls[c].res = <<[value |-> TitleText, depth |-> 1]>>
    /\ Len(runs) = 1

====
